---- MODULE Spec2Model ----
(***************************************************************************)
(* A model of the chunk subsystem of pngjs-image:                          *)
(*   - the Chunk base class and its static chunk-type registry             *)
(*     (src/lib/png/chunks/hIST.js, lines 130-439),                        *)
(*   - the hIST, PLTE and stRT chunk-type modules.                         *)
(* A JavaScript value that may be `undefined` is a sequence of length 0    *)
(* (None) or 1 (Some(v)).  A call's outcome is a record whose err field    *)
(* names the error thrown ("none" when the call returned).                 *)
(***************************************************************************)
EXTENDS Integers, Sequences, FiniteSets, TLC

VARIABLES registry, regLog, chunks, self, stream, ret, walk

vars == <<registry, regLog, chunks, self, stream, ret, walk>>

None == <<>>
Some(v) == <<v>>

\* ------------------------------------------------------------------ bounds
MaxRegs == 2
MaxRecords == 3

\* ------------------------------------------------------- type names, modules
\* The ASCII codes of the 4 characters of every type name the model uses.
Codes ==
  [ bKGD |-> <<98, 75, 71, 68>>,   cHRM |-> <<99, 72, 82, 77>>,
    gAMA |-> <<103, 65, 77, 65>>,  hIST |-> <<104, 73, 83, 84>>,
    iCCP |-> <<105, 67, 67, 80>>,  IDAT |-> <<73, 68, 65, 84>>,
    IEND |-> <<73, 69, 78, 68>>,   IHDR |-> <<73, 72, 68, 82>>,
    iTXt |-> <<105, 84, 88, 116>>, pHYs |-> <<112, 72, 89, 115>>,
    PLTE |-> <<80, 76, 84, 69>>,   sBIT |-> <<115, 66, 73, 84>>,
    sPLT |-> <<115, 80, 76, 84>>,  sRGB |-> <<115, 82, 71, 66>>,
    tEXt |-> <<116, 69, 88, 116>>, tIME |-> <<116, 73, 77, 69>>,
    tRNS |-> <<116, 82, 78, 83>>,  zTXt |-> <<122, 84, 88, 116>>,
    stRT |-> <<115, 116, 82, 84>>,
    \* names no initialisation pass registers
    abCd |-> <<97, 98, 67, 100>>,  ABcd |-> <<65, 66, 99, 100>>,
    xyZW |-> <<120, 121, 90, 87>>, QrsT |-> <<81, 114, 115, 84>> ]

TypeNames == DOMAIN Codes

\* initDefaultChunkTypes' list (line 414) and initCustomChunkTypes' (line 428)
DefaultChunks ==
  << "bKGD", "cHRM", "gAMA", "hIST", "iCCP", "IDAT", "IEND", "IHDR", "iTXt",
     "pHYs", "PLTE", "sBIT", "sPLT", "sRGB", "tEXt", "tIME", "tRNS", "zTXt" >>

CustomChunks == << "stRT" >>

\* require(path.join(__dirname, dir, chunkType)): the module object of a file
RequireModule(dir, chunkType) == [dir |-> dir, file |-> chunkType, hasDecode |-> TRUE]

\* Capability tables a caller registers at run time: one that overrides decode
\* (with a decode that consumes nothing and throws nothing) and one that does not.
UserModules ==
  { [dir |-> "user", file |-> "skipper", hasDecode |-> TRUE],
    [dir |-> "user", file |-> "bare", hasDecode |-> FALSE] }

RegNames == {"abCd", "ABcd", "hIST"}
QueryNames == {"abCd", "ABcd", "hIST", "IHDR", "xyZW", "QrsT"}
RecordNames == {"abCd", "ABcd", "xyZW", "QrsT"}

\* ------------------------------------------------------------ the registry
\* Chunk._registry = {}
EmptyRegistry == [t \in TypeNames |-> None]

\* A plausible slip: a registration that does not overwrite an existing entry.
addChunkType_KeepFirst(reg, type, module) ==
  IF reg[type] = None THEN [reg EXCEPT ![type] = Some(module)] ELSE reg

\* Chunk.addChunkType: this._registry[type] = module
addChunkType(reg, type, module) == [reg EXCEPT ![type] = Some(module)]

\* Chunk.getChunkType: return this._registry[type]   (undefined when absent)
getChunkType(reg, type) == reg[type]

\* Chunk.applyChunkType: copy the module's methods onto obj, or throw
applyChunkType(reg, type, obj) ==
  LET methods == getChunkType(reg, type) IN
  IF methods # None
    THEN [err |-> "none", obj |-> [obj EXCEPT !.module = methods, !.type = Some(type)]]
    ELSE [err |-> "UnknownChunkType", obj |-> obj]

RECURSIVE RegisterAll(_, _, _)
\* chunks.forEach(function (chunkType) { this.addChunkType(chunkType, require(...)) })
RegisterAll(reg, dir, list) ==
  IF list = <<>> THEN reg
  ELSE RegisterAll(addChunkType(reg, Head(list), RequireModule(dir, Head(list))),
                   dir, Tail(list))

\* Chunk.initDefaultChunkTypes(); Chunk.initCustomChunkTypes();  (lines 436-437)
InitialRegistry ==
  RegisterAll(RegisterAll(EmptyRegistry, "chunks", DefaultChunks), "custom", CustomChunks)

\* The register calls made so far, oldest first (a history of the calls,
\* kept beside the registry to state what a lookup must return).
InitialLog ==
  [i \in 1..Len(DefaultChunks) |-> <<DefaultChunks[i], RequireModule("chunks", DefaultChunks[i])>>]
  \o [i \in 1..Len(CustomChunks) |-> <<CustomChunks[i], RequireModule("custom", CustomChunks[i])>>]

\* ------------------------------------------------------------------ Chunk
\* An object before the constructor ran: no own fields.
BlankObject == [type |-> None, module |-> None, _type |-> None]

\* var Chunk = function (type, chunks): this._chunks = chunks; load the utils;
\* Chunk.applyChunkType(type, this).  Nothing assigns this._type.
NewChunk(reg, type) == applyChunkType(reg, type, BlankObject)

\* Chunk.prototype._isUpperCase: !(value & 0x20), value an integer
_isUpperCase(value) == ((value \div 32) % 2) = 0

\* this._type[i]: indexing undefined throws a TypeError
TypeChar(this, i) ==
  IF this._type = None THEN [err |-> "TypeError", val |-> 0]
  ELSE [err |-> "none", val |-> this._type[1][i + 1]]

UpperAt(this, i) ==
  LET c == TypeChar(this, i) IN
  IF c.err # "none" THEN [err |-> c.err, val |-> FALSE]
  ELSE [err |-> "none", val |-> _isUpperCase(c.val)]

Negate(r) == IF r.err # "none" THEN r ELSE [err |-> "none", val |-> ~r.val]

isCritical(this) == UpperAt(this, 0)
isAncillary(this) == Negate(isCritical(this))
isPublic(this) == UpperAt(this, 1)
isPrivate(this) == Negate(isPublic(this))
isUnsafe(this) == UpperAt(this, 3)
isSafe(this) == Negate(isUnsafe(this))

\* Chunk.prototype.decode: the default for a chunk whose module has no decode
DefaultDecode(this) ==
  LET c == isCritical(this) IN
  IF c.err # "none" THEN c.err
  ELSE IF c.val THEN "UnknownCriticalChunk" ELSE "none"

\* ------------------------------------------------- registry specification
NoRet == [op |-> "none", arg |-> "", err |-> "none", val |-> None]
NoWalk == [status |-> "idle", n |-> 0]
NoStream == [buf |-> <<>>, pos |-> 0]
NoChunks == [t \in {"IHDR", "PLTE", "hIST", "stRT"} |-> <<>>]

InitRegistry ==
  /\ registry = InitialRegistry
  /\ regLog = InitialLog
  /\ chunks = NoChunks
  /\ self = None
  /\ stream = NoStream
  /\ ret = NoRet
  /\ walk = NoWalk

AddChunkType(type, module) ==
  /\ Len(regLog) < Len(InitialLog) + MaxRegs
  /\ registry' = addChunkType(registry, type, module)
  /\ regLog' = Append(regLog, <<type, module>>)
  /\ ret' = [op |-> "addChunkType", arg |-> type, err |-> "none", val |-> None]
  /\ UNCHANGED <<chunks, self, stream, walk>>

GetChunkType(type) ==
  /\ ret' = [op |-> "getChunkType", arg |-> type, err |-> "none",
             val |-> getChunkType(registry, type)]
  /\ UNCHANGED <<registry, regLog, chunks, self, stream, walk>>

ApplyChunkType(type) ==
  /\ self # None
  /\ LET r == applyChunkType(registry, type, self[1]) IN
       /\ self' = Some(r.obj)
       /\ ret' = [op |-> "applyChunkType", arg |-> type, err |-> r.err, val |-> None]
  /\ UNCHANGED <<registry, regLog, chunks, stream, walk>>

Construct(type) ==
  /\ LET r == NewChunk(registry, type) IN
       /\ self' = IF r.err = "none" THEN Some(r.obj) ELSE self
       /\ ret' = [op |-> "new", arg |-> type, err |-> r.err, val |-> None]
  /\ UNCHANGED <<registry, regLog, chunks, stream, walk>>

CallPredicate(op, r) ==
  /\ self # None
  /\ ret' = [op |-> op, arg |-> self[1].type[1], err |-> r.err, val |-> Some(r.val)]
  /\ UNCHANGED <<registry, regLog, chunks, self, stream, walk>>

IsCritical == self # None /\ CallPredicate("isCritical", isCritical(self[1]))
IsAncillary == self # None /\ CallPredicate("isAncillary", isAncillary(self[1]))
IsPublic == self # None /\ CallPredicate("isPublic", isPublic(self[1]))
IsPrivate == self # None /\ CallPredicate("isPrivate", isPrivate(self[1]))
IsUnsafe == self # None /\ CallPredicate("isUnsafe", isUnsafe(self[1]))
IsSafe == self # None /\ CallPredicate("isSafe", isSafe(self[1]))

NextRegistry ==
  \/ \E t \in RegNames, m \in UserModules : AddChunkType(t, m)
  \/ \E t \in QueryNames : GetChunkType(t)
  \/ \E t \in QueryNames : ApplyChunkType(t)
  \/ \E t \in QueryNames : Construct(t)
  \/ IsCritical
  \/ IsAncillary
  \/ IsPublic
  \/ IsPrivate
  \/ IsUnsafe
  \/ IsSafe

SpecRegistry == InitRegistry /\ [][NextRegistry]_vars

RECURSIVE LastRegistered(_, _)
\* What the most recent register call for `type` in `log` installed (None: no call).
LastRegistered(log, type) ==
  IF log = <<>> THEN None
  ELSE IF log[Len(log)][1] = type THEN Some(log[Len(log)][2])
  ELSE LastRegistered(SubSeq(log, 1, Len(log) - 1), type)

EverRegistered(log, type) == \E i \in 1..Len(log) : log[i][1] = type

\* C8: lookup returns what the most recent register call for the name gave, and
\* absent for a name never registered (so a registration leaves every other
\* name's entry alone); register never fails; bind (by applyChunkType or by the
\* constructor) fails with the unknown-chunk-type error exactly when the name
\* was never registered.
C8_RegistryLookup ==
  /\ \A t \in TypeNames : getChunkType(registry, t) = LastRegistered(regLog, t)
  /\ ret.op = "getChunkType" => ret.val = LastRegistered(regLog, ret.arg)
  /\ ret.op = "addChunkType" => ret.err = "none"
  /\ ret.op \in {"applyChunkType", "new"} =>
       /\ ret.err \in {"none", "UnknownChunkType"}
       /\ (ret.err = "UnknownChunkType") <=> ~EverRegistered(regLog, ret.arg)

\* A name registered twice with different modules is looked up (the later one
\* is returned), while another name was never registered.
C8_Witness ==
  /\ ret.op = "getChunkType"
  /\ \E i, j \in 1..Len(regLog) :
       /\ i < j
       /\ regLog[i][1] = ret.arg /\ regLog[j][1] = ret.arg
       /\ regLog[i][2] # regLog[j][2]
       /\ ret.val = Some(regLog[j][2])
  /\ \E t \in QueryNames : ~EverRegistered(regLog, t) /\ getChunkType(registry, t) = None

IsUpperChar(code) == code \in 65..90

PredicateOps == {"isCritical", "isAncillary", "isPublic", "isPrivate", "isUnsafe", "isSafe"}

\* What each type-bit predicate must return for a name, by the case of its characters.
ExpectedBit(op, name) ==
  LET c == Codes[name] IN
  CASE op = "isCritical" -> IsUpperChar(c[1])
    [] op = "isAncillary" -> ~IsUpperChar(c[1])
    [] op = "isPublic" -> IsUpperChar(c[2])
    [] op = "isPrivate" -> ~IsUpperChar(c[2])
    [] op = "isUnsafe" -> IsUpperChar(c[4])
    [] op = "isSafe" -> ~IsUpperChar(c[4])

\* C2: on every chunk the six type-bit predicates never fail and return the
\* case of the character at position 0, 1 or 3 of the chunk's type name
\* (isAncillary, isPrivate and isSafe the negations).
C2_TypeBitPredicates ==
  ret.op \in PredicateOps =>
    /\ ret.err = "none"
    /\ ret.val = Some(ExpectedBit(ret.op, ret.arg))

\* ------------------------------------------------------ the container walk
\* The decode walk of a container: for each record of the stream, in order,
\* construct a Chunk of the record's type, call its decode and add the chunk
\* to the collection; an error ends the whole decode.
\* chunk.decode(...): the bound module's decode when it has one (the walk's
\* records name run-time modules only, whose decode reads and throws
\* nothing), the prototype's default otherwise.
DecodeOf(this) ==
  IF this.module[1].hasDecode THEN "none" ELSE DefaultDecode(this)

InitWalk ==
  /\ registry = InitialRegistry
  /\ regLog = InitialLog
  /\ chunks = NoChunks
  /\ self = None
  /\ stream = NoStream
  /\ ret = NoRet
  /\ walk = [status |-> "running", n |-> 0, decoded |-> <<>>, skipped |-> <<>>]

DecodeRecord(type) ==
  /\ walk.status = "running"
  /\ walk.n < MaxRecords
  /\ LET made == NewChunk(registry, type)
         err == IF made.err # "none" THEN made.err ELSE DecodeOf(made.obj)
         bound == made.err = "none" /\ made.obj.module[1].hasDecode
     IN
       /\ ret' = [op |-> "decodeRecord", arg |-> type, err |-> err, val |-> None]
       /\ walk' = IF err # "none"
                    THEN [walk EXCEPT !.status = "failed", !.n = @ + 1]
                    ELSE [walk EXCEPT !.n = @ + 1,
                            !.decoded = IF bound THEN Append(@, type) ELSE @,
                            !.skipped = IF bound THEN @ ELSE Append(@, type)]
  /\ UNCHANGED <<registry, regLog, chunks, self, stream>>

NextWalk ==
  \/ \E t \in RegNames, m \in UserModules : AddChunkType(t, m)
  \/ \E t \in RecordNames : DecodeRecord(t)

SpecWalk == InitWalk /\ [][NextWalk]_vars

\* C1: a record whose type name was never registered fails the whole decode
\* when the name's first character is uppercase, and is skipped (no state
\* populated, the decode goes on) when it is lowercase.
C1_UnknownTypeDecode ==
  (ret.op = "decodeRecord" /\ ~EverRegistered(regLog, ret.arg)) =>
    IF IsUpperChar(Codes[ret.arg][1])
      THEN walk.status = "failed" /\ ret.err # "none"
      ELSE /\ walk.status = "running"
           /\ ret.err = "none"
           /\ walk.skipped # <<>> /\ walk.skipped[Len(walk.skipped)] = ret.arg

\* ============================================================= chunkUtils
\* The sibling lookups every chunk gets from chunkUtils.js.  `cs` is the
\* chunk collection this._chunks: for each type, the chunks of that type in
\* insertion order.
getChunksByType(cs, type, required) ==
  IF cs[type] # <<>> THEN [err |-> "none", val |-> Some(cs[type])]
  ELSE IF required THEN [err |-> "NotFound", val |-> None]
  ELSE [err |-> "none", val |-> None]

\* The first chunk of a type, or null (None)
getFirstChunk(cs, type, required) ==
  LET r == getChunksByType(cs, type, required) IN
  IF r.err # "none" \/ r.val = None THEN r
  ELSE [err |-> "none", val |-> Some(r.val[1][1])]

getHeaderChunk(cs) == getFirstChunk(cs, "IHDR", TRUE)

\* The header chunk's accessors the palette decode uses
hasPalette(header) == header.colorType = 3
getBitDepth(header) == header.bitDepth

\* -------------------------------------------------------------- byte data
MaxLen == 6

Bytes == {0, 255}

\* The byte sequences of one length the model draws: every byte the same, or
\* the bytes counting up from 1 (so that no two positions agree).
Fill(k, b) == [i \in 1..k |-> b]
Ramp(k) == [i \in 1..k |-> i]
Buffers(k) == {Fill(k, b) : b \in Bytes} \cup {Ramp(k)}
BuffersUpTo(n) == UNION {Buffers(k) : k \in 0..n}

\* `!x === null`: `!x` is a boolean, and a boolean is never identical to null
NotIsNull(x) == FALSE

\* =================================================================== PLTE
RGB(buf, i) == [r |-> buf[3 * i + 1], g |-> buf[3 * i + 2], b |-> buf[3 * i + 3]]

\* PLTE decode.  `fresh` is the content of the buffer `new Buffer(length)`
\* returns, which is not initialised.  The copy statement names `data` and
\* `offset`, which are not defined anywhere: evaluating it throws a
\* ReferenceError after this._palette was assigned.
plteDecode(this, cs, length, fresh) ==
  IF NotIsNull(getFirstChunk(cs, "IHDR", FALSE).val)
    THEN [err |-> "MissingDependency", this |-> this]
  ELSE IF getFirstChunk(cs, "PLTE", FALSE).val # None
    THEN [err |-> "DuplicateChunk", this |-> this]
  ELSE IF length % 3 # 0
    THEN [err |-> "MalformedLength", this |-> this]
  ELSE LET h == getHeaderChunk(cs) IN
    IF h.err # "none" THEN [err |-> h.err, this |-> this]
    ELSE IF ~hasPalette(h.val[1])
      THEN [err |-> "InvalidForColorType", this |-> this]
    ELSE IF 2 ^ getBitDepth(h.val[1]) * 3 > length
      THEN [err |-> "PaletteTooSmall", this |-> this]
    ELSE [err |-> "ReferenceError", this |-> [this EXCEPT !._palette = Some(fresh)]]

\* PLTE getColor
getColor(this, index) ==
  IF this._palette = None THEN [err |-> "TypeError", val |-> None]
  ELSE LET data == this._palette[1]
           internalIndex == index * 3 IN
    IF internalIndex + 3 > Len(data) THEN [err |-> "IndexOutOfRange", val |-> None]
    ELSE IF internalIndex < 0 THEN [err |-> "RangeError", val |-> None]
    ELSE [err |-> "none", val |-> Some(RGB(data, index))]

\* PLTE getColorCount: this._palette.length / 3 (the model keeps 3 * the quotient apart
\* only for lengths that are multiples of 3, the only ones decode stores)
getColorCount(this) ==
  IF this._palette = None THEN [err |-> "TypeError", val |-> 0]
  ELSE [err |-> "none", val |-> Len(this._palette[1]) \div 3]

HeaderInputs == {<<>>} \cup {<<[colorType |-> c, bitDepth |-> d]>> : c \in {0, 3}, d \in {1, 2}}

\* A palette chunk that already sits in the collection
PriorPalette == [_palette |-> Some(<<255, 0, 0, 0, 255, 0>>)]

FreshPLTE == [_palette |-> None]

InitPLTE ==
  /\ registry = InitialRegistry
  /\ regLog = InitialLog
  /\ \E h \in HeaderInputs, p \in {<<>>, <<PriorPalette>>} :
       chunks = [NoChunks EXCEPT !.IHDR = h, !.PLTE = p]
  /\ self = Some(FreshPLTE)
  /\ stream = NoStream
  /\ ret = NoRet
  /\ walk = NoWalk

\* One record of type PLTE is decoded into a new chunk (the walk adds the
\* chunk to the collection when decode returns).
\* The contents `new Buffer(length)` may have when plteDecode reaches it.
FreshBuffers(cs, length) ==
  IF plteDecode(FreshPLTE, cs, length, <<>>).this._palette = None
    THEN {<<>>} ELSE Buffers(length)

PlteDecode(body) ==
  /\ \E fresh \in FreshBuffers(chunks, Len(body)) :
       LET r == plteDecode(FreshPLTE, chunks, Len(body), fresh) IN
       /\ self' = Some(r.this)
       /\ ret' = [op |-> "decode", arg |-> Len(body), err |-> r.err, val |-> None]
       /\ chunks' = IF r.err = "none"
                      THEN [chunks EXCEPT !.PLTE = Append(@, r.this)] ELSE chunks
  /\ stream' = [buf |-> body, pos |-> 0]
  /\ UNCHANGED <<registry, regLog, walk>>

PlteGetColor(index) ==
  /\ LET r == getColor(self[1], index) IN
       ret' = [op |-> "getColor", arg |-> index, err |-> r.err, val |-> r.val]
  /\ UNCHANGED <<registry, regLog, chunks, self, stream, walk>>

PlteGetColorCount ==
  /\ LET r == getColorCount(self[1]) IN
       ret' = [op |-> "getColorCount", arg |-> 0, err |-> r.err, val |-> Some(r.val)]
  /\ UNCHANGED <<registry, regLog, chunks, self, stream, walk>>

NextPLTE ==
  \/ \E body \in BuffersUpTo(MaxLen) : PlteDecode(body)
  \/ \E i \in -1..(MaxLen \div 3) : PlteGetColor(i)
  \/ PlteGetColorCount

SpecPLTE == InitPLTE /\ [][NextPLTE]_vars

\* C3: decoding a palette chunk in a collection without a header chunk always
\* fails with the missing-dependency error, whatever the body length and
\* whatever else the collection holds.  (The header lookup's own not-found
\* error is counted as that error too, so that a violation shows another
\* check deciding the outcome.)
C3_PaletteNeedsHeader ==
  (ret.op = "decode" /\ chunks.IHDR = <<>>) => ret.err \in {"MissingDependency", "NotFound"}

\* The decode preconditions of C10 hold for the record in `stream`.
PaletteDecodable ==
  /\ chunks.IHDR # <<>> /\ hasPalette(chunks.IHDR[1])
  /\ chunks.PLTE = <<>>
  /\ Len(stream.buf) % 3 = 0
  /\ 2 ^ getBitDepth(chunks.IHDR[1]) * 3 <= Len(stream.buf)

\* C10: with a header that permits a palette, no prior palette, a length that
\* is a multiple of 3 and at least 3 * 2^bitDepth, decode succeeds and the
\* chunk owns a copy of the body: getColorCount() = length / 3, getColor(i) is
\* the i-th triple of the body, and getColor(length / 3) is out of bounds.
C10_PaletteDecodeSuccess ==
  (ret.op = "decode" /\ PaletteDecodable) =>
    LET n == Len(stream.buf) \div 3 IN
    /\ ret.err = "none"
    /\ self[1]._palette = Some(stream.buf)
    /\ getColorCount(self[1]) = [err |-> "none", val |-> n]
    /\ \A i \in 0..(n - 1) : getColor(self[1], i) = [err |-> "none", val |-> Some(RGB(stream.buf, i))]
    /\ getColor(self[1], n).err = "IndexOutOfRange"

\* =================================================================== hIST
MaxBuf == 4
MaxColors == 2

\* Buffer.readUInt16BE(offset): two bytes, the high one first; reading outside
\* the buffer throws
readUInt16BE(buf, offset) ==
  IF offset < 0 \/ offset + 2 > Len(buf) THEN [err |-> "RangeError", val |-> 0]
  ELSE [err |-> "none", val |-> buf[offset + 1] * 256 + buf[offset + 2]]

\* Buffer.writeUInt16BE(value, offset): throws for a value that is no 16-bit
\* unsigned integer and for an offset outside the buffer
writeUInt16BE(buf, value, offset) ==
  IF value < 0 \/ value > 65535 THEN [err |-> "TypeError", buf |-> buf]
  ELSE IF offset < 0 \/ offset + 2 > Len(buf) THEN [err |-> "RangeError", buf |-> buf]
  ELSE [err |-> "none",
        buf |-> [buf EXCEPT ![offset + 1] = value \div 256, ![offset + 2] = value % 256]]

\* hIST getFrequency
getFrequency(this, index) ==
  IF this._frequency = None \/ index < 0 \/ index * 2 > Len(this._frequency[1])
    THEN [err |-> "none", val |-> 0]
  ELSE readUInt16BE(this._frequency[1], index * 2)

\* hIST setFrequency.  The right-sized `buffer` is allocated and filled but
\* never assigned to this._frequency: the write goes to the old buffer, or
\* fails on undefined when there is none.
setFrequency(this, cs, index, frequency) ==
  LET paletteChunk == getFirstChunk(cs, "PLTE", TRUE) IN
  IF paletteChunk.err # "none" THEN [err |-> paletteChunk.err, this |-> this]
  ELSE LET paletteLength == getColorCount(paletteChunk.val[1]) IN
    IF paletteLength.err # "none" THEN [err |-> paletteLength.err, this |-> this]
    ELSE LET resize == \/ this._frequency = None
                       \/ Len(this._frequency[1]) # 2 * paletteLength.val
             \* the local `buffer`: paletteLength bytes, the old bytes copied in;
             \* no statement stores it
             buffer == IF resize THEN Some(paletteLength.val) ELSE None
         IN
      IF this._frequency = None THEN [err |-> "TypeError", this |-> this]
      ELSE LET w == writeUInt16BE(this._frequency[1], frequency, index * 2) IN
        [err |-> w.err, this |-> [this EXCEPT !._frequency = Some(w.buf)]]

\* hIST setFrequencies.  `fresh` is the uninitialised content of the new buffer;
\* the loop body names `index`, which is not defined: its first iteration
\* throws a ReferenceError.
setFrequencies(this, frequencies, fresh) ==
  [err |-> IF Len(fresh) > 0 THEN "ReferenceError" ELSE "none",
   this |-> [this EXCEPT !._frequency = Some(fresh)]]

\* BufferedStream.readBuffer(length): the next `length` bytes; fails past the end
readBuffer(st, length) ==
  IF length < 0 \/ st.pos + length > Len(st.buf)
    THEN [err |-> "RangeError", val |-> <<>>, st |-> st]
  ELSE [err |-> "none", val |-> SubSeq(st.buf, st.pos + 1, st.pos + length),
        st |-> [st EXCEPT !.pos = @ + length]]

\* BufferedStream.writeBuffer(bytes)
writeBuffer(st, bytes) == [buf |-> st.buf \o bytes, pos |-> st.pos]

\* hIST encode
histEncode(this, st) ==
  IF this._frequency # None THEN writeBuffer(st, this._frequency[1]) ELSE st

\* hIST decode
histDecode(this, cs, st, length) ==
  IF NotIsNull(getFirstChunk(cs, "IHDR", FALSE).val)
    THEN [err |-> "MissingDependency", this |-> this, st |-> st]
  ELSE IF getFirstChunk(cs, "hIST", FALSE).val # None
    THEN [err |-> "DuplicateChunk", this |-> this, st |-> st]
  ELSE LET r == readBuffer(st, length) IN
    IF r.err # "none" THEN [err |-> r.err, this |-> this, st |-> st]
    ELSE [err |-> "none", this |-> [this EXCEPT !._frequency = Some(r.val)], st |-> r.st]

FreshHIST == [_frequency |-> None]

PaletteOf(n) == [_palette |-> Some(Ramp(3 * n))]

InitHIST ==
  /\ registry = InitialRegistry
  /\ regLog = InitialLog
  /\ \E h \in {<<>>, <<[colorType |-> 3, bitDepth |-> 1]>>},
        p \in {<<>>} \cup {<<PaletteOf(n)>> : n \in 1..MaxColors},
        d \in {<<>>, <<FreshHIST>>} :
       chunks = [NoChunks EXCEPT !.IHDR = h, !.PLTE = p, !.hIST = d]
  /\ self = Some(FreshHIST)
  /\ stream = NoStream
  /\ ret = NoRet
  /\ walk = NoWalk

HistRet(op, arg, err, val) ==
  [op |-> op, arg |-> arg, err |-> err, val |-> val, before |-> self[1]._frequency]

HistDecode(body) ==
  /\ LET r == histDecode(self[1], chunks, [buf |-> body, pos |-> 0], Len(body)) IN
       /\ self' = Some(r.this)
       /\ stream' = r.st
       /\ ret' = HistRet("decode", Len(body), r.err, None)
  /\ UNCHANGED <<registry, regLog, chunks, walk>>

HistEncode ==
  /\ stream' = histEncode(self[1], [buf |-> <<>>, pos |-> 0])
  /\ ret' = HistRet("encode", 0, "none", None)
  /\ UNCHANGED <<registry, regLog, chunks, self, walk>>

HistGetFrequency(index) ==
  /\ LET r == getFrequency(self[1], index) IN
       ret' = HistRet("getFrequency", index, r.err, Some(r.val))
  /\ UNCHANGED <<registry, regLog, chunks, self, stream, walk>>

HistSetFrequency(index, frequency) ==
  /\ LET r == setFrequency(self[1], chunks, index, frequency) IN
       /\ self' = Some(r.this)
       /\ ret' = HistRet("setFrequency", index, r.err, Some(frequency))
  /\ UNCHANGED <<registry, regLog, chunks, stream, walk>>

HistSetFrequencies(frequencies) ==
  /\ \E fresh \in Buffers(Len(frequencies) * 2) :
       LET r == setFrequencies(self[1], frequencies, fresh) IN
       /\ self' = Some(r.this)
       /\ ret' = HistRet("setFrequencies", Len(frequencies), r.err, None)
  /\ UNCHANGED <<registry, regLog, chunks, stream, walk>>

FrequencyInputs == {0, 258, 65535, 65536}

NextHIST ==
  \/ \E body \in BuffersUpTo(MaxBuf) : HistDecode(body)
  \/ HistEncode
  \/ \E i \in -1..MaxColors : HistGetFrequency(i)
  \/ \E i \in 0..MaxColors, f \in FrequencyInputs : HistSetFrequency(i, f)
  \/ \E fs \in {<<>>, <<1>>, <<1, 2>>} : HistSetFrequencies(fs)

SpecHIST == InitHIST /\ [][NextHIST]_vars

\* C6: getFrequency never fails; it returns 0 when there is no buffer, when
\* the index is negative or when the 16-bit counter at the index does not lie
\* wholly inside the buffer, and the big-endian counter stored there otherwise.
C6_GetFrequencyTotal ==
  ret.op = "getFrequency" =>
    /\ ret.err = "none"
    /\ LET f == self[1]._frequency IN
       ret.val = Some(IF f = None \/ ret.arg < 0 \/ 2 * ret.arg + 2 > Len(f[1])
                        THEN 0
                        ELSE f[1][2 * ret.arg + 1] * 256 + f[1][2 * ret.arg + 2])

\* C9: with a palette of N colors in the collection, setFrequency(index, value)
\* for 0 <= index < N and a 16-bit value succeeds from any prior state; then
\* the buffer is 2 * N bytes long, getFrequency(index) = value, and every other
\* index below N that held a value before still returns it.
C9_SetFrequency ==
  (/\ ret.op = "setFrequency"
   /\ chunks.PLTE # <<>>
   /\ ret.arg \in 0..(Len(chunks.PLTE[1]._palette[1]) \div 3 - 1)
   /\ ret.val[1] \in 0..65535) =>
    LET n == Len(chunks.PLTE[1]._palette[1]) \div 3 IN
    /\ ret.err = "none"
    /\ self[1]._frequency # None
    /\ Len(self[1]._frequency[1]) = 2 * n
    /\ getFrequency(self[1], ret.arg) = [err |-> "none", val |-> ret.val[1]]
    /\ \A j \in 0..(n - 1) :
         (j # ret.arg /\ ret.before # None /\ 2 * j + 2 <= Len(ret.before[1])) =>
           getFrequency(self[1], j) = readUInt16BE(ret.before[1], 2 * j)

\* =================================================================== stRT
\* ------------------------------------------------- JSON values and text
\* A JSON value is a record: t its kind, and its payload in the field of
\* that kind (b a boolean, n a number, s a string's characters, e an array's
\* elements or an object's members in order); k is the key of a value that
\* is a member of an object.  Text is a sequence of one-character strings.
J(t, b, n, s, e) == [t |-> t, b |-> b, n |-> n, s |-> s, e |-> e, k |-> <<>>]
JNull == J("null", FALSE, 0, <<>>, <<>>)
JBool(b) == J("bool", b, 0, <<>>, <<>>)
JNum(n) == J("num", FALSE, n, <<>>, <<>>)
JStr(cs) == J("str", FALSE, 0, cs, <<>>)
JArr(es) == J("arr", FALSE, 0, <<>>, es)
JObj(ms) == J("obj", FALSE, 0, <<>>, ms)
Member(key, x) == [x EXCEPT !.k = key]

\* JavaScript truthiness of a JSON value: null, false, 0 and "" are falsy
Truthy(x) ==
  CASE x.t = "null" -> FALSE
    [] x.t = "bool" -> x.b
    [] x.t = "num" -> x.n # 0
    [] x.t = "str" -> x.s # <<>>
    [] OTHER -> TRUE

DigitChars == <<"0", "1", "2", "3", "4", "5", "6", "7", "8", "9">>

IsDigit(c) == \E d \in 1..10 : DigitChars[d] = c
DigitValue(c) == (CHOOSE d \in 1..10 : DigitChars[d] = c) - 1

RECURSIVE NatText(_)
NatText(n) ==
  IF n < 10 THEN <<DigitChars[n + 1]>>
  ELSE NatText(n \div 10) \o <<DigitChars[(n % 10) + 1]>>

NumText(n) == IF n < 0 THEN <<"-">> \o NatText(-n) ELSE NatText(n)

RECURSIVE EscapeText(_)
EscapeText(cs) ==
  IF cs = <<>> THEN <<>>
  ELSE (IF Head(cs) \in {"\"", "\\"} THEN <<"\\", Head(cs)>> ELSE <<Head(cs)>>)
       \o EscapeText(Tail(cs))

QuoteText(cs) == <<"\"">> \o EscapeText(cs) \o <<"\"">>

RECURSIVE JSONstringify(_)
RECURSIVE ElementsText(_)
RECURSIVE MembersText(_)
\* JSON.stringify of a JSON value
JSONstringify(x) ==
  CASE x.t = "null" -> <<"n", "u", "l", "l">>
    [] x.t = "bool" -> IF x.b THEN <<"t", "r", "u", "e">> ELSE <<"f", "a", "l", "s", "e">>
    [] x.t = "num" -> NumText(x.n)
    [] x.t = "str" -> QuoteText(x.s)
    [] x.t = "arr" -> <<"[">> \o ElementsText(x.e) \o <<"]">>
    [] x.t = "obj" -> <<"{">> \o MembersText(x.e) \o <<"}">>

ElementsText(es) ==
  IF es = <<>> THEN <<>>
  ELSE JSONstringify(Head(es))
       \o (IF Len(es) > 1 THEN <<",">> ELSE <<>>) \o ElementsText(Tail(es))

MembersText(ms) ==
  IF ms = <<>> THEN <<>>
  ELSE QuoteText(Head(ms).k) \o <<":">> \o JSONstringify(Head(ms))
       \o (IF Len(ms) > 1 THEN <<",">> ELSE <<>>) \o MembersText(Tail(ms))

\* The parser: each operator reads at position i of text s and returns
\* [ok, val, i], i the position after what it read.
ParseFail == [ok |-> FALSE, val |-> JNull, i |-> 0]

At(s, i) == IF i >= 1 /\ i <= Len(s) THEN s[i] ELSE "<end>"

ParseLiteral(s, i, lit, x) ==
  IF i + Len(lit) - 1 <= Len(s) /\ SubSeq(s, i, i + Len(lit) - 1) = lit
    THEN [ok |-> TRUE, val |-> x, i |-> i + Len(lit)]
    ELSE ParseFail

RECURSIVE ParseChars(_, _, _)
\* a string's characters up to the closing quote, i after the opening quote
ParseChars(s, i, acc) ==
  LET c == At(s, i) IN
  IF c = "<end>" THEN ParseFail
  ELSE IF c = "\"" THEN [ok |-> TRUE, val |-> JStr(acc), i |-> i + 1]
  ELSE IF c = "\\"
    THEN IF At(s, i + 1) \in {"\"", "\\"}
           THEN ParseChars(s, i + 2, Append(acc, At(s, i + 1)))
           ELSE ParseFail
  ELSE ParseChars(s, i + 1, Append(acc, c))

RECURSIVE ParseDigits(_, _, _)
ParseDigits(s, i, acc) ==
  IF IsDigit(At(s, i)) THEN ParseDigits(s, i + 1, acc * 10 + DigitValue(At(s, i)))
  ELSE [ok |-> TRUE, val |-> JNum(acc), i |-> i]

\* an integer: an optional minus sign, then 0 or a digit sequence with no leading 0
ParseNumber(s, i) ==
  LET neg == At(s, i) = "-"
      j == IF neg THEN i + 1 ELSE i IN
  IF ~IsDigit(At(s, j)) THEN ParseFail
  ELSE LET d == IF At(s, j) = "0" THEN [ok |-> TRUE, val |-> JNum(0), i |-> j + 1]
                ELSE ParseDigits(s, j, 0) IN
       IF neg THEN [d EXCEPT !.val = JNum(0 - d.val.n)] ELSE d

RECURSIVE ParseValue(_, _)
RECURSIVE ParseElements(_, _, _)
RECURSIVE ParseMembers(_, _, _)
ParseValue(s, i) ==
  LET c == At(s, i) IN
  CASE c = "n" -> ParseLiteral(s, i, <<"n", "u", "l", "l">>, JNull)
    [] c = "t" -> ParseLiteral(s, i, <<"t", "r", "u", "e">>, JBool(TRUE))
    [] c = "f" -> ParseLiteral(s, i, <<"f", "a", "l", "s", "e">>, JBool(FALSE))
    [] c = "\"" -> ParseChars(s, i + 1, <<>>)
    [] c = "[" -> IF At(s, i + 1) = "]" THEN [ok |-> TRUE, val |-> JArr(<<>>), i |-> i + 2]
                  ELSE ParseElements(s, i + 1, <<>>)
    [] c = "{" -> IF At(s, i + 1) = "}" THEN [ok |-> TRUE, val |-> JObj(<<>>), i |-> i + 2]
                  ELSE ParseMembers(s, i + 1, <<>>)
    [] c = "-" \/ IsDigit(c) -> ParseNumber(s, i)
    [] OTHER -> ParseFail

ParseElements(s, i, acc) ==
  LET e == ParseValue(s, i) IN
  IF ~e.ok THEN ParseFail
  ELSE IF At(s, e.i) = "," THEN ParseElements(s, e.i + 1, Append(acc, e.val))
  ELSE IF At(s, e.i) = "]" THEN [ok |-> TRUE, val |-> JArr(Append(acc, e.val)), i |-> e.i + 1]
  ELSE ParseFail

ParseMembers(s, i, acc) ==
  IF At(s, i) # "\"" THEN ParseFail
  ELSE LET k == ParseChars(s, i + 1, <<>>) IN
    IF ~k.ok \/ At(s, k.i) # ":" THEN ParseFail
    ELSE LET e == ParseValue(s, k.i + 1) IN
      IF ~e.ok THEN ParseFail
      ELSE IF At(s, e.i) = "," THEN ParseMembers(s, e.i + 1, Append(acc, Member(k.val.s, e.val)))
      ELSE IF At(s, e.i) = "}"
        THEN [ok |-> TRUE, val |-> JObj(Append(acc, Member(k.val.s, e.val))), i |-> e.i + 1]
      ELSE ParseFail

\* JSON.parse: a value that spans the whole text, or a SyntaxError
JSONparse(s) ==
  LET r == ParseValue(s, 1) IN
  IF r.ok /\ r.i = Len(s) + 1 THEN [err |-> "none", val |-> r.val]
  ELSE [err |-> "SyntaxError", val |-> JNull]

\* ---------------------------------------------------- text <-> UTF-8 bytes
\* The ASCII characters JSON text of the model is made of, with their codes
CharTable ==
  << <<"\"", 34>>, <<",", 44>>, <<"-", 45>>, <<"0", 48>>, <<"1", 49>>, <<"2", 50>>,
     <<"3", 51>>, <<"4", 52>>, <<"5", 53>>, <<"6", 54>>, <<"7", 55>>, <<"8", 56>>,
     <<"9", 57>>, <<":", 58>>, <<"[", 91>>, <<"\\", 92>>, <<"]", 93>>, <<"a", 97>>,
     <<"e", 101>>, <<"f", 102>>, <<"k", 107>>, <<"l", 108>>, <<"n", 110>>,
     <<"r", 114>>, <<"s", 115>>, <<"t", 116>>, <<"u", 117>>, <<"{", 123>>, <<"}", 125>> >>

CharCode(c) == CharTable[CHOOSE k \in 1..Len(CharTable) : CharTable[k][1] = c][2]
CodeChar(b) ==
  IF \E k \in 1..Len(CharTable) : CharTable[k][2] = b
    THEN CharTable[CHOOSE k \in 1..Len(CharTable) : CharTable[k][2] = b][1]
    ELSE "?"

\* new Buffer(dataStr, 'utf8') and data.toString('utf8'), on ASCII text
Utf8Encode(text) == [k \in 1..Len(text) |-> CharCode(text[k])]
Utf8Decode(bytes) == [k \in 1..Len(bytes) |-> CodeChar(bytes[k])]

\* ------------------------------------------------------ the payload codec
\* Compressor.compress / decompress: a framing that is not the identity and
\* that decompress undoes (a marker byte, the length, the bytes); any other
\* input is malformed.
compress(bytes) == <<120, Len(bytes)>> \o bytes

decompress(data) ==
  IF Len(data) >= 2 /\ data[1] = 120 /\ data[2] = Len(data) - 2
    THEN [err |-> "none", val |-> SubSeq(data, 3, Len(data))]
    ELSE [err |-> "MalformedPayload", val |-> <<>>]

\* --------------------------------------------------------- the byte cursor
\* BufferedStream.writeASCIIString(s): one byte per character; a string that
\* is undefined has no length to iterate
writeASCIIString(st, str) ==
  IF str = None THEN [err |-> "TypeError", st |-> st]
  ELSE [err |-> "none", st |-> writeBuffer(st, [k \in 1..Len(str[1]) |-> str[1][k] % 256])]

\* BufferedStream.writeUInt8(v)
writeUInt8(st, v) == writeBuffer(st, <<v>>)

\* BufferedStream.readString(n, 'ascii'): n bytes, each read as a 7-bit character
readString(st, n) ==
  LET r == readBuffer(st, n) IN
  [err |-> r.err, val |-> [k \in 1..Len(r.val) |-> r.val[k] % 128], st |-> r.st]

\* BufferedStream.readUInt8()
readUInt8(st) ==
  LET r == readBuffer(st, 1) IN
  [err |-> r.err, val |-> IF r.err = "none" THEN r.val[1] ELSE 0, st |-> r.st]

\* x & 0xff, with undefined & 0xff = 0
Mask8(x) == IF x = None THEN 0 ELSE x[1] % 256

\* --------------------------------------------------------- the stRT chunk
FreshSTRT == [_dataType |-> None, _dataMajor |-> None, _dataMinor |-> None, _content |-> None]

\* stRT setDataType
setDataType(this, type) ==
  IF Len(type) # 4 THEN [err |-> "InvalidTag", this |-> this]
  ELSE [err |-> "none", this |-> [this EXCEPT !._dataType = Some(type)]]

\* stRT setMajor
setMajor(this, major) ==
  IF major > 255 THEN [err |-> "VersionOutOfRange", this |-> this]
  ELSE [err |-> "none", this |-> [this EXCEPT !._dataMajor = Some(major)]]

\* stRT setMinor
setMinor(this, minor) ==
  IF minor > 255 THEN [err |-> "VersionOutOfRange", this |-> this]
  ELSE [err |-> "none", this |-> [this EXCEPT !._dataMinor = Some(minor)]]

\* stRT setContent
setContent(this, data) == [err |-> "none", this |-> [this EXCEPT !._content = Some(data)]]

\* this._content || {}
ContentOrEmpty(this) ==
  IF this._content # None /\ Truthy(this._content[1]) THEN this._content[1] ELSE JObj(<<>>)

\* stRT encode
strtEncode(this, st) ==
  LET dataStr == JSONstringify(ContentOrEmpty(this))
      data == compress(Utf8Encode(dataStr))
      w1 == writeASCIIString(st, this._dataType) IN
  IF w1.err # "none" THEN [err |-> w1.err, st |-> st]
  ELSE LET w2 == writeUInt8(w1.st, Mask8(this._dataMajor))
           w3 == writeUInt8(w2, Mask8(this._dataMinor)) IN
       [err |-> "none", st |-> writeBuffer(w3, data)]

\* stRT decode after its validation: the reads, the decompression, the parse.
\* Each field is assigned as soon as it is read.
strtRead(this, st, length) ==
  LET r1 == readString(st, 4) IN
  IF r1.err # "none" THEN [err |-> r1.err, this |-> this, st |-> r1.st]
  ELSE LET t1 == [this EXCEPT !._dataType = Some(r1.val)]
           r2 == readUInt8(r1.st) IN
    IF r2.err # "none" THEN [err |-> r2.err, this |-> t1, st |-> r2.st]
    ELSE LET t2 == [t1 EXCEPT !._dataMajor = Some(r2.val)]
             r3 == readUInt8(r2.st) IN
      IF r3.err # "none" THEN [err |-> r3.err, this |-> t2, st |-> r3.st]
      ELSE LET t3 == [t2 EXCEPT !._dataMinor = Some(r3.val)]
               r4 == readBuffer(r3.st, length - 6) IN
        IF r4.err # "none" THEN [err |-> r4.err, this |-> t3, st |-> r4.st]
        ELSE LET d == decompress(r4.val) IN
          IF d.err # "none" THEN [err |-> d.err, this |-> t3, st |-> r4.st]
          ELSE LET j == JSONparse(Utf8Decode(d.val)) IN
            IF j.err # "none" THEN [err |-> j.err, this |-> t3, st |-> r4.st]
            ELSE [err |-> "none", this |-> [t3 EXCEPT !._content = Some(j.val)], st |-> r4.st]

\* A plausible slip: the decode without its duplicate check.
strtDecode_NoDuplicateCheck(this, cs, st, length) == strtRead(this, st, length)

\* stRT decode
strtDecode(this, cs, st, length) ==
  IF getFirstChunk(cs, "stRT", FALSE).val # None
    THEN [err |-> "DuplicateChunk", this |-> this, st |-> st]
  ELSE strtRead(this, st, length)

\* ------------------------------------------------------ setters specification
TagInputs ==
  { <<74, 83, 79, 78>>, <<80, 73, 78, 71>>, <<65, 66, 67>>, <<65, 66, 67, 68, 69>>, <<>> }

VersionInputs == {-1, 0, 1, 255, 256, 300}

ContentInputs ==
  { JNull, JBool(FALSE), JBool(TRUE), JNum(0), JNum(12), JStr(<<>>), JStr(<<"a", "\"">>),
    JArr(<<>>), JArr(<<JNum(0), JStr(<<"k">>)>>), JObj(<<>>),
    JObj(<<Member(<<"k">>, JArr(<<JNull>>)), Member(<<"a">>, JNum(-7))>>) }

InitSetters ==
  /\ registry = InitialRegistry
  /\ regLog = InitialLog
  /\ chunks = NoChunks
  /\ self = Some(FreshSTRT)
  /\ stream = NoStream
  /\ ret = [op |-> "none", arg |-> None, err |-> "none", before |-> FreshSTRT]
  /\ walk = NoWalk

CallSetter(op, arg, r) ==
  /\ self' = Some(r.this)
  /\ ret' = [op |-> op, arg |-> Some(arg), err |-> r.err, before |-> self[1]]
  /\ UNCHANGED <<registry, regLog, chunks, stream, walk>>

StrtSetDataType(type) == CallSetter("setDataType", type, setDataType(self[1], type))
StrtSetMajor(major) == CallSetter("setMajor", major, setMajor(self[1], major))
StrtSetMinor(minor) == CallSetter("setMinor", minor, setMinor(self[1], minor))
StrtSetContent(data) == CallSetter("setContent", data, setContent(self[1], data))

NextSetters ==
  \/ \E t \in TagInputs : StrtSetDataType(t)
  \/ \E v \in VersionInputs : StrtSetMajor(v)
  \/ \E v \in VersionInputs : StrtSetMinor(v)
  \/ \E c \in {JNull, JNum(12), JObj(<<>>)} : StrtSetContent(c)

SpecSetters == InitSetters /\ [][NextSetters]_vars

\* C7: every value a setter stored satisfies the data model (dataType of
\* exactly 4 characters, major and minor in 0..255), and a call with a tag of
\* another length or a version above 255 fails and leaves the chunk unchanged.
C7_SettersKeepPayloadValid ==
  /\ self[1]._dataType # None => Len(self[1]._dataType[1]) = 4
  /\ self[1]._dataMajor # None => self[1]._dataMajor[1] \in 0..255
  /\ self[1]._dataMinor # None => self[1]._dataMinor[1] \in 0..255
  /\ (ret.op = "setDataType" /\ Len(ret.arg[1]) # 4) =>
        ret.err = "InvalidTag" /\ self[1] = ret.before
  /\ (ret.op \in {"setMajor", "setMinor"} /\ ret.arg[1] > 255) =>
        ret.err = "VersionOutOfRange" /\ self[1] = ret.before

\* ------------------------------------------------------ codec specification
\* The chunk that is encoded: any state the setters can leave it in.
ChunkInputs ==
  { [_dataType |-> t, _dataMajor |-> ma, _dataMinor |-> mi, _content |-> c] :
      t \in {None, Some(<<74, 83, 79, 78>>)},
      ma \in {None, Some(-1), Some(0), Some(255)},
      mi \in {Some(1), Some(255)},
      c \in {None} \cup {Some(x) : x \in ContentInputs} }

InitSTRT ==
  /\ registry = InitialRegistry
  /\ regLog = InitialLog
  /\ chunks = NoChunks
  /\ self \in {Some(c) : c \in ChunkInputs}
  /\ stream = NoStream
  /\ ret = [op |-> "none", err |-> "none", this |-> FreshSTRT, had |-> FALSE, pos |-> 0]
  /\ walk = [status |-> "running", lens |-> <<>>, next |-> 1]

\* The chunk is encoded as one more record of the container's stream.
StrtEncode ==
  /\ Len(walk.lens) < MaxRecords
  /\ LET r == strtEncode(self[1], stream) IN
       /\ stream' = r.st
       /\ walk' = IF r.err = "none"
                    THEN [walk EXCEPT !.lens = Append(@, Len(r.st.buf) - Len(stream.buf))]
                    ELSE walk
       /\ ret' = [op |-> "encode", err |-> r.err, this |-> self[1], had |-> FALSE,
                  pos |-> stream.pos]
  /\ UNCHANGED <<registry, regLog, chunks, self>>

\* The walk decodes the next record of the stream into a new stRT chunk and
\* adds the chunk to the collection; an error ends the container's decode.
StrtDecode ==
  /\ walk.status = "running"
  /\ walk.next <= Len(walk.lens)
  /\ LET r == strtDecode(FreshSTRT, chunks, stream, walk.lens[walk.next]) IN
       /\ stream' = r.st
       /\ chunks' = IF r.err = "none" THEN [chunks EXCEPT !.stRT = Append(@, r.this)]
                    ELSE chunks
       /\ walk' = IF r.err = "none" THEN [walk EXCEPT !.next = @ + 1]
                  ELSE [walk EXCEPT !.status = "failed"]
       /\ ret' = [op |-> "decode", err |-> r.err, this |-> r.this,
                  had |-> chunks.stRT # <<>>, pos |-> stream.pos]
  /\ UNCHANGED <<registry, regLog, self>>

NextSTRT ==
  \/ StrtEncode
  \/ StrtDecode

SpecSTRT == InitSTRT /\ [][NextSTRT]_vars

\* C4: the collection never holds more than one stRT chunk: a stRT record
\* decoded when the collection already holds one fails as a duplicate with
\* the cursor where it was and nothing read into the chunk, and the first
\* stRT record of a container is not rejected as a duplicate.
C4_SingleStructuredChunk ==
  /\ Len(chunks.stRT) <= 1
  /\ ret.op = "decode" =>
       IF ret.had
         THEN ret.err = "DuplicateChunk" /\ stream.pos = ret.pos /\ ret.this = FreshSTRT
         ELSE ret.err # "DuplicateChunk"

\* A second stRT record was rejected while the collection held the first.
C4_Witness ==
  /\ ret.op = "decode" /\ ret.had /\ ret.err = "DuplicateChunk"
  /\ Len(chunks.stRT) = 1
  /\ stream.pos < Len(stream.buf)

\* The encoded chunk is in the domain of the round-trip claim.
ValidPayload(c) ==
  /\ c._dataType # None /\ Len(c._dataType[1]) = 4
  /\ c._dataMajor # None /\ c._dataMajor[1] \in 0..255
  /\ c._dataMinor # None /\ c._dataMinor[1] \in 0..255
  /\ c._content # None

\* C5: decoding the bytes encode wrote for a chunk with a 4-character tag,
\* versions in 0..255 and any JSON content, into a fresh chunk of a container
\* without a stRT chunk, yields the original tag, versions and content.
C5_RoundTrip ==
  (ret.op = "decode" /\ ~ret.had /\ ValidPayload(self[1])) =>
    /\ ret.err = "none"
    /\ ret.this._dataType = self[1]._dataType
    /\ ret.this._dataMajor = self[1]._dataMajor
    /\ ret.this._dataMinor = self[1]._dataMinor
    /\ ret.this._content # None
    /\ ret.this._content[1] = self[1]._content[1]

\* The round trip restricted to content that is truthy in JavaScript, which
\* encode does not replace by the empty object: it holds, so the failures of
\* the round trip are the falsy contents.
RoundTripTruthy ==
  (ret.op = "decode" /\ ~ret.had /\ ValidPayload(self[1]) /\ Truthy(self[1]._content[1])) =>
    /\ ret.err = "none"
    /\ ret.this = self[1]

====
